---- MODULE Spec2Model ----
(***************************************************************************)
(* snitchbot: the per-user task registry (TaskManager) and the polling     *)
(* loop (SiteWatcher._do_watch_site), with the chat handlers that drive    *)
(* them.                                                                   *)
(*                                                                         *)
(* Execution model.  Everything runs on one asyncio event loop.  A step of *)
(* the model is the code a coroutine or callback runs between two          *)
(* suspension points (await of network I/O or of asyncio.sleep).           *)
(*  - asyncio.create_task only schedules the coroutine: the task is        *)
(*    "created" until the loop first runs it.                              *)
(*  - Task.cancel() on a finished task does nothing; on an unfinished one  *)
(*    it makes the task's next step raise CancelledError at the await the  *)
(*    task is suspended on (or before its first line when not started).    *)
(*  - CancelledError derives from BaseException (Python >= 3.8), so the    *)
(*    loop's "except Exception" does not catch it.                         *)
(*  - a done callback is scheduled with call_soon when the task finishes:  *)
(*    it runs in a later loop step than the task's last step.              *)
(*  - the Application is built without concurrent_updates and the handlers *)
(*    block, so updates are handled one at a time: a handler runs to its   *)
(*    end, suspending at its awaits, before the next handler starts.       *)
(*    Tasks and done callbacks interleave with the handler at its awaits.  *)
(***************************************************************************)
EXTENDS Integers, FiniteSets, Sequences, TLC

\* Bounds of the model.
MaxTasks == 3      \* tasks created over a run (asyncio.create_task calls)
MaxProbes == 2     \* probes started over a run (session.get calls)

Users == {"alice", "bob"}
Sites == {"https://a.io", "https://b.io"}
BadUrl == "badhost"
Texts == Sites \cup {BadUrl}
TaskIds == 1..MaxTasks

NoTask == 0
PollInterval == 15     \* seconds between two probes: asyncio.sleep(15)
NoUser == "nobody"
NoUrl == "none"

VARIABLES
    tasks,      \* TaskManager.tasks: user -> (key -> task), both dicts partial
    task,       \* the asyncio.Task objects created so far, by id
    nt,         \* number of tasks created so far
    np,         \* number of probes started so far
    h,          \* the update handler in flight, if any
    view        \* the user whose keys() view a caller of get_tasks holds

vars == <<tasks, task, nt, np, h, view>>

----------------------------------------------------------------------------
\* Python dicts as functions with a finite domain.

EmptyDict == [x \in {} |-> NoTask]

DictSet(d, k, v) == [x \in DOMAIN d \cup {k} |-> IF x = k THEN v ELSE d[x]]

DictGet(d, k) == IF k \in DOMAIN d THEN d[k] ELSE NoTask

\* dict.pop(k, None): the dict without k; no KeyError when k is absent.
DictPop(d, k) == [x \in DOMAIN d \ {k} |-> d[x]]

----------------------------------------------------------------------------
\* TaskManager (src/snitchbot/tasks.py, repeated in __main__.py).

\* A _user_tasks without the "if user not in self.tasks" test.
_user_tasks_fresh(tk, user) == DictSet(tk, user, EmptyDict)

\* _user_tasks: the registry after the call (the inner dict is created on
\* first access); the inner dict itself is _user_tasks(tk, user)[user].
_user_tasks(tk, user) ==
    IF user \in DOMAIN tk THEN tk ELSE DictSet(tk, user, EmptyDict)

\* A done callback that looks the user up and removes nothing.
_clear_task_kept(tk, user, url) == _user_tasks(tk, user)

_clear_task(tk, user, url) ==
    LET tk1 == _user_tasks(tk, user)
    IN  [tk1 EXCEPT ![user] = DictPop(tk1[user], url)]

get_tasks(tk, user) == DOMAIN _user_tasks(tk, user)[user]

has_tasks(tk, user) == Cardinality(DOMAIN _user_tasks(tk, user)[user]) > 0

has_task(tk, user, key) == key \in DOMAIN _user_tasks(tk, user)[user]

\* submit: user_tasks[key] = task, whatever was stored under key before.
submit_registry(tk, user, key, t) ==
    LET tk1 == _user_tasks(tk, user)
    IN  [tk1 EXCEPT ![user] = DictSet(tk1[user], key, t)]

\* A cancel that, when the key is absent, takes another watch of the user.
cancel_popped_any(tk, user, key) ==
    LET d == _user_tasks(tk, user)[user]
    IN  IF key \in DOMAIN d THEN d[key]
        ELSE IF DOMAIN d = {} THEN NoTask
        ELSE d[CHOOSE k \in DOMAIN d : TRUE]

\* cancel: the task popped (NoTask when absent) and the registry afterwards.
cancel_popped(tk, user, key) == DictGet(_user_tasks(tk, user)[user], key)

\* A cancel that drops all of the user's watches instead of one.
cancel_registry_all(tk, user, key) ==
    LET tk1 == _user_tasks(tk, user)
    IN  [tk1 EXCEPT ![user] = EmptyDict]

cancel_registry(tk, user, key) ==
    LET tk1 == _user_tasks(tk, user)
    IN  [tk1 EXCEPT ![user] = DictPop(tk1[user], key)]

----------------------------------------------------------------------------
\* asyncio.Task and the watch coroutine.

NewTask ==
    [user |-> NoUser, key |-> NoUrl,
     pc |-> "new",            \* new, created, probe, notify, sleep, done
     outcome |-> "none",      \* none, succeeded, cancelled, failed
     must_cancel |-> FALSE,   \* cancellation requested and not yet delivered
     hook |-> "none",         \* done callback: none, pending, ran
     probes |-> 0,            \* session.get calls started
     fails |-> 0,             \* probes that raised or answered not ok
     oks |-> 0,               \* probes that answered ok
     awaited |-> 0,           \* times the on_success coroutine was started
     raised |-> 0,            \* times "await on_success" raised
     delay |-> 0,             \* seconds of the sleep the task is in
     sent |-> 0,              \* success messages delivered
     stopped |-> 0,           \* stop messages delivered for this task
     popped |-> FALSE]        \* cancel() popped this task's entry

Live(r) == r.pc \in {"created", "probe", "notify", "sleep"}

\* "except Exception" (line 163).
IsException(exc) == exc # "CancelledError"

\* The awaits inside the try block (lines 157-162).
InTry(pc) == pc \in {"probe", "notify"}

\* A task that ends with no done callback installed.
FinishUnhooked(r, outcome) ==
    [r EXCEPT !.pc = "done", !.outcome = outcome, !.must_cancel = FALSE]

\* The coroutine ends: the task is done and its done callbacks are scheduled.
Finish(r, outcome) ==
    [r EXCEPT !.pc = "done", !.outcome = outcome, !.hook = "pending",
              !.must_cancel = FALSE]

\* A poll interval that doubles with every failed probe.
IntervalBackoff(r) == PollInterval * 2 ^ r.fails

\* The argument of asyncio.sleep: a literal.
Interval(r) == PollInterval

\* The loop body's last line: await asyncio.sleep(15).
Sleep(r) == [r EXCEPT !.pc = "sleep", !.delay = Interval(r)]

\* exc is raised at the await the task is suspended on.
Raise(r, exc) ==
    IF InTry(r.pc) /\ IsException(exc)
    THEN Sleep(r)                                    \* print; asyncio.sleep(15)
    ELSE Finish(r, IF exc = "CancelledError" THEN "cancelled" ELSE "failed")

\* A cancel that pops the entry and never calls Task.cancel().
TaskCancelLost(r) == r

\* Task.cancel().
TaskCancel(r) ==
    IF r.pc = "done" THEN r ELSE [r EXCEPT !.must_cancel = TRUE]

\* "await on_success" (line 161): on_success is one coroutine object, made
\* once in handle_get_site; awaiting it a second time raises RuntimeError.
AwaitOnSuccess(r) ==
    IF r.awaited = 0
    THEN [r EXCEPT !.pc = "notify", !.awaited = 1]
    ELSE Raise([r EXCEPT !.raised = r.raised + 1], "RuntimeError")

\* The loop body up to its first await: a new session and session.get.
StartProbe(r) == [r EXCEPT !.pc = "probe", !.probes = r.probes + 1, !.delay = 0]

\* A finished task whose done callback has run is referenced by nothing and
\* is reclaimed; the record keeps whose watch it was and how it ended.
Reclaimed(r) ==
    [NewTask EXCEPT !.user = r.user, !.key = r.key, !.pc = "done",
                    !.outcome = r.outcome, !.hook = "ran"]

Idle == [pc |-> "idle", user |-> NoUser, url |-> NoUrl]

Init ==
    /\ tasks = EmptyDict
    /\ task = [t \in TaskIds |-> NewTask]
    /\ nt = 0
    /\ np = 0
    /\ h = Idle
    /\ view = NoUser

\* TaskManager.submit(user, key, work).
Submit(user, key) ==
    /\ nt < MaxTasks
    /\ nt' = nt + 1
    /\ task' = [task EXCEPT ![nt + 1] =
                   [NewTask EXCEPT !.user = user, !.key = key, !.pc = "created"]]
    /\ tasks' = submit_registry(tasks, user, key, nt + 1)

\* TaskManager.cancel(user, key); with stop, the stop message is delivered
\* for the task cancel found.
Cancel(user, key, stop) ==
    LET t == cancel_popped(tasks, user, key)
    IN  /\ tasks' = cancel_registry(tasks, user, key)
        /\ task' = IF t = NoTask THEN task
                   ELSE [task EXCEPT ![t] =
                           [TaskCancel(task[t]) EXCEPT
                               !.popped = TRUE,
                               !.stopped = IF stop THEN 1 ELSE task[t].stopped]]

----------------------------------------------------------------------------
\* Steps of a watch task.

\* The loop runs the task for the first time.
TaskStart(t) ==
    /\ task[t].pc = "created" /\ ~task[t].must_cancel
    /\ np < MaxProbes
    /\ task' = [task EXCEPT ![t] = StartProbe(task[t])]
    /\ np' = np + 1
    /\ UNCHANGED <<tasks, nt, h, view>>

\* session.get returns or raises.
ProbeReturns(t) ==
    /\ task[t].pc = "probe" /\ ~task[t].must_cancel
    /\ \/ task' = [task EXCEPT ![t] =                      \* response.ok
                      AwaitOnSuccess([task[t] EXCEPT !.oks = task[t].oks + 1])]
       \/ task' = [task EXCEPT ![t] =                      \* not response.ok
                      Sleep([task[t] EXCEPT !.fails = task[t].fails + 1])]
       \/ task' = [task EXCEPT ![t] =                      \* transport error
                      Raise([task[t] EXCEPT !.fails = task[t].fails + 1], "ClientError")]
    /\ UNCHANGED <<tasks, nt, np, h, view>>

\* on_success (reply_text) returns, the message sent, or raises.
NotifyReturns(t) ==
    /\ task[t].pc = "notify" /\ ~task[t].must_cancel
    /\ \/ task' = [task EXCEPT ![t] =                      \* return (line 162)
                      Finish([task[t] EXCEPT !.sent = task[t].sent + 1], "succeeded")]
       \/ task' = [task EXCEPT ![t] =                      \* it raises
                      Raise([task[t] EXCEPT !.raised = task[t].raised + 1], "TelegramError")]
    /\ UNCHANGED <<tasks, nt, np, h, view>>

\* asyncio.sleep(15) returns: next iteration of the loop.
SleepReturns(t) ==
    /\ task[t].pc = "sleep" /\ ~task[t].must_cancel
    /\ np < MaxProbes
    /\ task' = [task EXCEPT ![t] = StartProbe(task[t])]
    /\ np' = np + 1
    /\ UNCHANGED <<tasks, nt, h, view>>

\* A requested cancellation is delivered: CancelledError at the current await.
\* A reply_text interrupted in flight may or may not have reached the user.
Cancelled(t) ==
    /\ Live(task[t]) /\ task[t].must_cancel
    /\ \E delivered \in BOOLEAN :
         /\ delivered => task[t].pc = "notify"
         /\ task' = [task EXCEPT ![t] =
                       Raise([task[t] EXCEPT !.sent = task[t].sent + (IF delivered THEN 1 ELSE 0)],
                             "CancelledError")]
    /\ UNCHANGED <<tasks, nt, np, h, view>>

\* The done callback installed by submit: lambda *_: self._clear_task(user, key).
DoneCallback(t) ==
    /\ task[t].pc = "done" /\ task[t].hook = "pending"
    /\ tasks' = _clear_task(tasks, task[t].user, task[t].key)
    /\ task' = [task EXCEPT ![t] = Reclaimed(task[t])]
    /\ UNCHANGED <<nt, np, h, view>>

TaskStep ==
    \E t \in TaskIds :
        \/ TaskStart(t)
        \/ ProbeReturns(t)
        \/ NotifyReturns(t)
        \/ SleepReturns(t)
        \/ Cancelled(t)
        \/ DoneCallback(t)

----------------------------------------------------------------------------
\* The TaskManager driven directly by an arbitrary caller.

ApiSubmit(user, key) ==
    /\ Submit(user, key)
    /\ UNCHANGED <<np, h, view>>

ApiCancel(user, key) ==
    /\ Cancel(user, key, FALSE)
    /\ UNCHANGED <<nt, np, h, view>>

\* get_tasks, has_tasks and has_task all go through _user_tasks.
ApiQuery(user) ==
    /\ tasks' = _user_tasks(tasks, user)
    /\ UNCHANGED <<task, nt, np, h, view>>

NextRegistry ==
    \/ \E user \in Users, key \in Sites : ApiSubmit(user, key)
    \/ \E user \in Users, key \in Sites : ApiCancel(user, key)
    \/ \E user \in Users : ApiQuery(user)
    \/ TaskStep

SpecRegistry == Init /\ [][NextRegistry]_vars

----------------------------------------------------------------------------
\* The TaskManager with a caller that keeps what get_tasks returned.

\* What the held view shows now: dict.keys() is a view of the inner dict,
\* not a copy of its keys.
ViewContents(tk, user) == IF user \in DOMAIN tk THEN DOMAIN tk[user] ELSE {}

\* get_tasks(user): the caller keeps the returned collection.
ApiGetTasks(user) ==
    /\ tasks' = _user_tasks(tasks, user)
    /\ view' = user
    /\ UNCHANGED <<task, nt, np, h>>

NextView ==
    \/ \E user \in Users : ApiGetTasks(user)
    \/ NextRegistry

SpecView == Init /\ [][NextView]_vars

----------------------------------------------------------------------------
\* The chat handlers of SiteWatcher.  Updates are handled one at a time.

\* is_valid_url: the address has a network location (scheme://host).
is_valid_url(url) == url \in Sites

\* The urls on the stop menus the user has been shown: a watch of the user
\* is on the menu of any handle_stop that ran while it was registered.
Shown(user) == {task[t].key : t \in {x \in TaskIds : task[x].user = user}}

\* A handle_get_site that skips the validation of the address.
HandleGetSiteUnchecked(user, text) ==
    /\ h.pc = "idle"
    /\ tasks' = _user_tasks(tasks, user)
    /\ h' = IF has_task(tasks, user, text) THEN Idle
            ELSE [pc |-> "dns", user |-> user, url |-> text]
    /\ UNCHANGED <<task, nt, np, view>>

\* handle_get_site up to its first await: the "already watched" reply (the
\* handler reads nothing after it and is over), the reply that the address
\* is not valid, or domain_exists(url).
HandleGetSite(user, text) ==
    /\ h.pc = "idle"
    /\ tasks' = _user_tasks(tasks, user)
    /\ h' = IF has_task(tasks, user, text) THEN Idle
            ELSE IF ~is_valid_url(text)
                 THEN [pc |-> "invalid", user |-> user, url |-> text]
                 ELSE [pc |-> "dns", user |-> user, url |-> text]
    /\ UNCHANGED <<task, nt, np, view>>

\* domain_exists returns: submit and the "watching" reply, or the reply that
\* the domain is unknown.
HandleGetSiteResolved ==
    /\ h.pc = "dns"
    /\ \/ /\ Submit(h.user, h.url)                    \* the domain exists
          /\ h' = Idle
       \/ /\ h' = [h EXCEPT !.pc = "unknown"]          \* it does not
          /\ UNCHANGED <<tasks, task, nt>>
    /\ UNCHANGED <<np, view>>

\* The reply to a rejected request returns (or raises): the handler is over
\* and the conversation stays in GET_SITE.
HandleGetSiteRejected ==
    /\ h.pc \in {"invalid", "unknown"}
    /\ h' = Idle
    /\ UNCHANGED <<tasks, task, nt, np, view>>

\* handle_stop: the menu of the user's current watches (see Shown).
HandleStop(user) ==
    /\ h.pc = "idle"
    /\ tasks' = _user_tasks(tasks, user)
    /\ UNCHANGED <<task, nt, np, h, view>>

\* handle_stop_site: the user pressed the button of url; query.answer(),
\* cancel, send_message.  The two awaits read and write nothing of the
\* registry or the tasks, so the handler is one step, taken when
\* query.answer() returns; the stop message is counted with the cancel.
HandleStopSite(user, url) ==
    /\ h.pc = "idle"
    /\ url \in Shown(user)
    /\ Cancel(user, url, TRUE)
    /\ UNCHANGED <<nt, np, h, view>>

Next ==
    \/ \E user \in Users, text \in Texts : HandleGetSite(user, text)
    \/ HandleGetSiteResolved
    \/ HandleGetSiteRejected
    \/ \E user \in Users : HandleStop(user)
    \/ \E user \in Users, url \in Sites : HandleStopSite(user, url)
    \/ TaskStep

Spec == Init /\ [][Next]_vars

----------------------------------------------------------------------------
\* Properties.

\* Task t's handle is the one stored under its (user, key).
Registered(t) ==
    /\ task[t].user \in DOMAIN tasks
    /\ DictGet(tasks[task[t].user], task[t].key) = t

\* Cancellation of t was never requested through the registry.
NotCancelled(t) == ~task[t].popped /\ ~task[t].must_cancel

\* The done callback of t runs in this step.
HookRuns(t) == task[t].hook = "pending" /\ task'[t].hook = "ran"

\* cancel(user, key) finds and pops t in this step.
CancelPops(t) == ~task[t].popped /\ task'[t].popped

\* The registry holds the same entries before and after the step.
SameEntries ==
    \A u \in Users, k \in Sites :
        /\ has_task(tasks', u, k) = has_task(tasks, u, k)
        /\ has_task(tasks, u, k) => tasks'[u][k] = tasks[u][k]

\* C1: has_task(U,K) stays true for as long as the work submitted under
\* (U,K) has not reached a terminal state.  Stated for the work whose
\* cancellation was not requested: while it is pending, has_task(U,K) holds.
C1_HasTaskUntilTerminal ==
    \A t \in TaskIds :
        Live(task[t]) /\ NotCancelled(t) => has_task(tasks, task[t].user, task[t].key)

\* C2: a submit for a (U,K) the registry already holds starts no new task
\* and leaves the entry's handle unchanged: no step creates a task for a key
\* that is registered, and an entry present before and after a step keeps
\* its handle.
C2_DuplicateSubmitRejected ==
    [][/\ nt' # nt => ~has_task(tasks, task'[nt'].user, task'[nt'].key)
       /\ \A u \in Users, k \in Sites :
            has_task(tasks, u, k) /\ has_task(tasks', u, k) => tasks'[u][k] = tasks[u][k]]_vars

\* C3: at most one watch task that has not reached a terminal state exists
\* for any (user, key).  Stated for the tasks nobody asked to cancel: no two
\* such pending tasks share a (user, key).
C3_OneLiveWatchPerKey ==
    \A t1, t2 \in TaskIds :
        /\ t1 # t2
        /\ Live(task[t1]) /\ NotCancelled(t1)
        /\ Live(task[t2]) /\ NotCancelled(t2)
        => <<task[t1].user, task[t1].key>> # <<task[t2].user, task[t2].key>>

\* C4: when cancel(U,K) and the natural completion of the task under (U,K)
\* race, the later removal attempt changes no registry entry: the done
\* callback of a task that succeeded and whose entry cancel already popped
\* leaves every entry as it was.
C4_LaterRemovalIsNoOp ==
    [][\A t \in TaskIds :
          HookRuns(t) /\ task[t].popped /\ task[t].outcome = "succeeded" => SameEntries]_vars

\* C5: a watch that is not cancelled ends as Succeeded with the probe that
\* first succeeds: once one of its probes has answered ok it starts no other
\* probe (it is notifying or done), it has made exactly fails + 1 probes and
\* has started the continuation exactly once.
C5_SucceedsAfterFirstOk ==
    \A t \in TaskIds :
        NotCancelled(t) /\ task[t].oks >= 1 =>
            /\ task[t].pc \in {"notify", "done"}
            /\ task[t].probes = task[t].fails + 1
            /\ task[t].awaited = 1
            /\ task[t].pc = "done" => task[t].outcome = "succeeded"

\* C6: if on_success raises, the watch still reaches a terminal state: it
\* issues no further probe (and its done callback then removes the entry).
C6_TerminalWhenNotifyRaises ==
    \A t \in TaskIds :
        task[t].raised >= 1 => task[t].pc = "done"

\* C7: a task whose cancellation is requested (cancel popped its entry)
\* while it is in the inter-probe sleep stays in the sleep until it ends as
\* Cancelled, starting no probe and not invoking the continuation.
C7_CancelDuringSleep ==
    [][\A t \in TaskIds :
          task[t].pc = "sleep" /\ task[t].popped =>
            /\ task'[t].probes = task[t].probes
            /\ task'[t].awaited = task[t].awaited
            /\ task'[t].sent = task[t].sent
            /\ \/ task'[t].pc = "sleep" /\ task'[t].must_cancel
               \/ task'[t].pc = "done" /\ task'[t].outcome = "cancelled"]_vars

\* C7 witness: a task that ended as Cancelled out of the sleep (every probe
\* it started had returned and no notification was in flight).
C7_Witness ==
    \E t \in TaskIds :
        /\ task[t].pc = "done" /\ task[t].hook = "pending"
        /\ task[t].outcome = "cancelled" /\ task[t].popped
        /\ task[t].probes >= 1
        /\ task[t].probes = task[t].fails + task[t].oks
        /\ task[t].awaited = task[t].raised

\* C8: failed probes never end a watch: a task none of whose probes answered
\* ok and that nobody cancelled is pending and keeps its registry entry, and
\* a task ends only as Succeeded (after an ok probe and its notification) or
\* as Cancelled (after a cancel).
C8_FailuresNeverTerminate ==
    \A t \in TaskIds :
        /\ task[t].outcome \in {"none", "succeeded", "cancelled"}
        /\ task[t].pc = "done" /\ task[t].hook = "pending" =>
              \/ task[t].outcome = "succeeded" /\ task[t].oks >= 1
              \/ task[t].outcome = "cancelled" /\ task[t].popped
        /\ Live(task[t]) /\ task[t].oks = 0 /\ NotCancelled(t) => Registered(t)

\* C9: a watch never produces both a success message and a stop message, and
\* never more than one of either.
C9_OneTerminalNotification ==
    \A t \in TaskIds :
        /\ task[t].sent + task[t].stopped <= 1
        /\ task[t].pc = "done" /\ task[t].hook = "pending" =>
              task[t].sent + task[t].stopped = 1

\* C10: cancel(U,K) on an existing entry removes exactly that entry and
\* requests cancellation of exactly that entry's task: afterwards
\* has_task(U,K) is false, every other entry is as before and no other task
\* is touched.
C10_CancelFrame ==
    [][\A t \in TaskIds :
          CancelPops(t) =>
            /\ Registered(t)
            /\ ~has_task(tasks', task[t].user, task[t].key)
            /\ \A u \in Users, k \in Sites :
                 <<u, k>> # <<task[t].user, task[t].key>> =>
                    /\ has_task(tasks', u, k) = has_task(tasks, u, k)
                    /\ has_task(tasks, u, k) => tasks'[u][k] = tasks[u][k]
            /\ task'[t].must_cancel = (task[t].pc # "done")
            /\ \A t2 \in TaskIds \ {t} : task'[t2] = task[t2]]_vars

\* C10 witness: a user with two watches cancelled one of them; the other
\* watch and a watch of another user are still registered.
C10_Witness ==
    \E t, t2, t3 \in TaskIds :
        /\ task[t].popped /\ task[t].must_cancel
        /\ ~has_task(tasks, task[t].user, task[t].key)
        /\ task[t2].user = task[t].user /\ task[t2].key # task[t].key
        /\ Registered(t2) /\ NotCancelled(t2)
        /\ task[t3].user # task[t].user
        /\ Registered(t3) /\ NotCancelled(t3)

\* C11: cancel(U,K) when the registry holds no entry for (U,K) is a no-op:
\* pop(key, None) finds nothing (no KeyError), no task is touched and every
\* entry of the registry is as before; the only change is that the inner
\* mapping of a user never seen before now exists, empty.
C11_CancelAbsentIsNoOp ==
    [][\A u \in Users, k \in Sites :
          ~has_task(tasks, u, k) /\ ApiCancel(u, k) =>
            /\ cancel_popped(tasks, u, k) = NoTask
            /\ task' = task
            /\ SameEntries
            /\ tasks' = _user_tasks(tasks, u)]_vars

\* C11 witness: the three cases of an absent entry at once, after a cancel
\* or a query gave bob his (empty) inner mapping: bob never submitted
\* anything, alice has a watch under another key, and alice's watch of k
\* finished and its done callback removed the entry.
C11_Witness ==
    \E t1, t2 \in TaskIds, k \in Sites :
        /\ "bob" \in DOMAIN tasks /\ tasks["bob"] = EmptyDict
        /\ \A t \in TaskIds : task[t].user # "bob"
        /\ task[t1].user = "alice" /\ task[t1].key = k
        /\ task[t1].hook = "ran" /\ task[t1].outcome = "succeeded"
        /\ task[t2].user = "alice" /\ task[t2].key # k /\ Registered(t2)
        /\ ~has_task(tasks, "alice", k)

\* The handler is replying that the request was rejected.
Rejecting(hh) == hh.pc \in {"invalid", "unknown"}

\* C12: a watch request whose address fails validation or whose domain does
\* not resolve never reaches the registry: an address without a network
\* location is rejected at once and is never the key of a task; from the
\* rejection to the handler's return no task is created and
\* has_task(user, address) is false; the return itself changes nothing.
C12_RejectedNeverSubmitted ==
    [][/\ \A u \in Users : HandleGetSite(u, BadUrl) => Rejecting(h')
       /\ \A t \in TaskIds : task'[t].key # BadUrl
       /\ Rejecting(h') =>
             /\ nt' = nt
             /\ ~has_task(tasks', h'.user, h'.url)
       /\ Rejecting(h) /\ h' = Idle => tasks' = tasks /\ task' = task]_vars

\* C12 witness: both rejections have happened to a user who never got a
\* watch: a request for a resolvable-looking address is being answered
\* "unknown domain" while the user's inner mapping, created by the has_task
\* check, is empty and no task was ever created for the user.
C12_Witness ==
    /\ h.pc = "unknown" /\ h.url \in Sites
    /\ h.user \in DOMAIN tasks /\ tasks[h.user] = EmptyDict
    /\ \A t \in TaskIds : task[t].user # h.user
    /\ nt >= 1

\* Every watch the user ever had is over for the registry: cancel popped it
\* or its done callback ran.  True of a user never seen.
NoWatches(u) ==
    \A t \in TaskIds : task[t].user = u => task[t].popped \/ task[t].hook = "ran"

\* C13: for a user with no watches (never seen, or every watch finished or
\* cancelled) get_tasks returns the empty collection, without an error for
\* a user the registry has no inner mapping for, has_tasks is false and
\* has_task(U,K) is false for every K.
C13_NoWatchesNoKeys ==
    \A u \in Users :
        NoWatches(u) =>
            /\ get_tasks(tasks, u) = {}
            /\ ~has_tasks(tasks, u)
            /\ \A k \in Texts : ~has_task(tasks, u, k)

\* C13 witness: alice had a watch that finished and one that was cancelled
\* and is still winding down; bob never had a watch and has been looked up
\* (his inner mapping exists, empty).
C13_Witness ==
    \E t1, t2 \in TaskIds :
        /\ task[t1].user = "alice" /\ task[t1].hook = "ran"
        /\ task[t2].user = "alice" /\ task[t2].popped /\ Live(task[t2])
        /\ NoWatches("alice") /\ get_tasks(tasks, "alice") = {}
        /\ NoWatches("bob") /\ "bob" \in DOMAIN tasks
        /\ nt = 2

\* C14: every entry (U,K) of the registry holds the handle of a task that was
\* submitted under (U,K) and that is still running or has just ended with
\* its done callback not yet run; no entry holds a task whose done callback
\* has run.
C14_EntriesAreCurrent ==
    \A u \in DOMAIN tasks :
        \A k \in DOMAIN tasks[u] :
            LET t == tasks[u][k]
            IN  /\ t \in 1..nt
                /\ task[t].user = u /\ task[t].key = k
                /\ \/ Live(task[t]) /\ task[t].hook = "none"
                   \/ task[t].pc = "done" /\ task[t].hook = "pending"

\* C14 witness: one entry holds a running task, another a task that has
\* just succeeded and whose done callback has not run yet, while a third
\* task's done callback has run and its entry is gone.
C14_Witness ==
    \E t1, t2, t3 \in TaskIds :
        /\ Registered(t1) /\ task[t1].pc = "sleep"
        /\ Registered(t2) /\ task[t2].pc = "done" /\ task[t2].hook = "pending"
        /\ task[t2].outcome = "succeeded"
        /\ task[t3].hook = "ran"
        /\ ~has_task(tasks, task[t3].user, task[t3].key)

\* The registry tk has an entry under (u, k), read without any access that
\* would create the inner mapping.
Holds(tk, u, k) == u \in DOMAIN tk /\ k \in DOMAIN tk[u]

\* C15: the inner mapping of a user is created on first access and never
\* replaced: no user has one before being accessed, every step keeps the
\* inner mappings that exist, a mapping that appears in a step is empty or
\* holds the one entry the step's submit put there, and an entry disappears
\* only when cancel pops it or when a done callback for its (user, key)
\* runs, never because the mapping was created anew.
C15_InnerMappingKept ==
    [][/\ DOMAIN tasks \subseteq DOMAIN tasks'
       /\ \A u \in DOMAIN tasks' \ DOMAIN tasks :
             \/ tasks'[u] = EmptyDict
             \/ /\ nt' = nt + 1 /\ task'[nt'].user = u
                /\ tasks'[u] = DictSet(EmptyDict, task'[nt'].key, nt')
       /\ \A u \in Users, k \in Sites :
             Holds(tasks, u, k) /\ ~Holds(tasks', u, k) =>
                \E t \in TaskIds :
                    /\ task[t].user = u /\ task[t].key = k
                    /\ HookRuns(t) \/ CancelPops(t)]_vars

\* C15 witness: alice's second submit found the inner mapping her first one
\* created (both entries are there), and bob's inner mapping has been
\* through a submit, a cancel and a done callback and is still there, empty.
C15_Witness ==
    \E t1, t2, t3 \in TaskIds :
        /\ task[t1].user = "alice" /\ task[t2].user = "alice"
        /\ task[t1].key # task[t2].key
        /\ Registered(t1) /\ Registered(t2)
        /\ task[t3].user = "bob" /\ task[t3].hook = "ran"
        /\ task[t3].outcome = "cancelled"
        /\ "bob" \in DOMAIN tasks /\ tasks["bob"] = EmptyDict

\* Probes of t started and not yet returned.
InFlight(r) == r.probes - r.fails - r.oks

\* C16: within one watch task probes are strictly sequential: a probe starts
\* only when every earlier probe of the task has returned, the first one
\* from the task's start and every later one out of a sleep of the fixed
\* interval; from the sleep the task goes to the next probe or ends; the
\* interval is PollInterval however many probes have failed; at most one
\* probe of a task is in flight.
C16_ProbesSequential ==
    [][\A t \in TaskIds :
          /\ task'[t].probes > task[t].probes =>
                /\ task'[t].probes = task[t].probes + 1
                /\ task'[t].pc = "probe"
                /\ InFlight(task[t]) = 0
                /\ IF task[t].probes = 0
                   THEN task[t].pc = "created"
                   ELSE task[t].pc = "sleep" /\ task[t].delay = PollInterval
          /\ task[t].pc = "sleep" => task'[t].pc \in {"sleep", "probe", "done"}
          /\ task'[t].pc = "sleep" => task'[t].delay = PollInterval
          /\ InFlight(task'[t]) \in {0, 1}
          /\ InFlight(task'[t]) = 1 /\ Live(task'[t]) => task'[t].pc = "probe"]_vars

\* C16 witness: a task on its second probe, started out of the sleep that
\* followed its first, failed, probe.
C16_Witness ==
    \E t \in TaskIds :
        /\ task[t].pc = "probe" /\ task[t].probes = 2
        /\ task[t].fails = 1 /\ task[t].oks = 0

\* C17: get_tasks(U) returns a snapshot of U's keys: while the caller holds
\* the returned collection, no step (a later submit, cancel or done
\* callback) changes what it contains.
C17_GetTasksSnapshot ==
    [][view # NoUser /\ view' = view =>
          ViewContents(tasks', view) = ViewContents(tasks, view)]_vars

\* C18: no watch task is orphaned: every task that has not reached a
\* terminal state and whose cancellation was not requested is the task the
\* registry stores under its (user, key), where cancel can reach it.
C18_NoOrphanTask ==
    \A t \in TaskIds :
        Live(task[t]) /\ NotCancelled(t) => Registered(t)

\* C19: the done callback of task T removes only T's own entry: when it
\* runs, every entry that holds another task, the one under T's own
\* (user, key) included, is still there afterwards with the same handle.
C19_HookRemovesOwnEntry ==
    [][\A t \in TaskIds :
          HookRuns(t) =>
             \A u \in Users, k \in Sites :
                Holds(tasks, u, k) /\ tasks[u][k] # t =>
                    Holds(tasks', u, k) /\ tasks'[u][k] = tasks[u][k]]_vars

\* cancel(u, k) has returned and u has not submitted k since: cancel popped
\* the entry of a task under (u, k) and no task was created under (u, k)
\* after that one (tasks are numbered in the order submit creates them).
CancelledNotResubmitted(u, k) ==
    \E t \in TaskIds :
        /\ task[t].user = u /\ task[t].key = k /\ task[t].popped
        /\ \A t2 \in TaskIds :
              t2 > t => ~(task[t2].user = u /\ task[t2].key = k)

\* C20: after cancel(U,K) has returned and as long as U does not submit K
\* again, no task under (U,K) starts a probe or starts the success
\* continuation.
C20_CancelledWatchIsSilent ==
    [][\A t \in TaskIds :
          CancelledNotResubmitted(task[t].user, task[t].key) =>
             /\ task'[t].probes <= task[t].probes
             /\ task'[t].awaited <= task[t].awaited]_vars

====
